---------------------------- MODULE Spec2Model ----------------------------
(***************************************************************************)
(* TOTP second factor of vaultwarden: src/api/core/two_factor/             *)
(* authenticator.rs.  One user account is modelled.  The persisted         *)
(* twofactor table of that user is `store`; the handlers of the file are   *)
(* the actions.  Spec runs the handlers one request at a time; SpecConc    *)
(* interleaves validate_totp_code requests at their await points; SpecApi  *)
(* calls the public validate_totp_code_str with arbitrary arguments;       *)
(* SpecTime runs single iterations of the verification loop over every     *)
(* clock reading; SpecRows interleaves verifications with disable requests *)
(* and counts the Authenticator rows.                                      *)
(***************************************************************************)
EXTENDS Integers, Sequences, FiniteSets, TLC

VARIABLES
    store,          \* twofactor rows of the user: kind -> Option<TwoFactor>
    now,            \* server clock, seconds since the epoch (chrono::Utc::now)
    disable_drift,  \* CONFIG.authenticator_disable_time_drift()
    last,           \* the most recent request and everything it did
    reqs,           \* SpecConc: the in-flight validate_totp_code requests
    shadowed        \* Authenticator rows the table holds besides the one
                    \* find_by_user_and_type returns

vars == <<store, now, disable_drift, last, reqs, shadowed>>

(***************************************************************************)
(* Bounds of the model.                                                    *)
(***************************************************************************)
\* The clock starts here; the real clock is far beyond the first two steps.
StartTime == 70
\* The clock stops advancing here.
MaxTime == 160
\* One clock tick, in seconds.
TickSecs == 30
\* Number of distinct one-time codes the generator produces (10^6 in the code).
CodeSpace == 3
\* Number of concurrent requests in SpecConc.
NReq == 2

(***************************************************************************)
(* Program constants.                                                      *)
(***************************************************************************)
\* Length of a time-step in seconds: `current_timestamp / 30i64`.
StepSecs == 30
\* Required length of a decoded secret: `decoded_key.len() != 20`.
KeyLen == 20

(***************************************************************************)
(* Secret texts.  A text is described by what BASE32.decode sees of it:    *)
(* whether its symbols and padding are base32 up to letter case, whether   *)
(* its letters are upper case, and the bytes it encodes (length, identity).*)
(***************************************************************************)
Text(wf, up, len, id) == [wellformed |-> wf, upper |-> up, len |-> len, id |-> id]

K1 == Text(TRUE, TRUE, KeyLen, 1)
K2 == Text(TRUE, TRUE, KeyLen, 2)
KLower == Text(TRUE, FALSE, KeyLen, 1)
KShort == Text(TRUE, TRUE, KeyLen \div 2, 1)
KJunk == Text(FALSE, TRUE, 0, 0)

Keys == {K1, K2, KLower, KShort, KJunk}

\* BASE32.decode: the RFC 4648 alphabet is upper case only.
Base32Decode(text) ==
    IF text.wellformed /\ text.upper
    THEN [ok |-> TRUE, len |-> text.len, id |-> text.id]
    ELSE [ok |-> FALSE, len |-> 0, id |-> 0]

\* str::to_uppercase
ToUppercase(text) == [text EXCEPT !.upper = TRUE]

(***************************************************************************)
(* Submitted tokens and generated codes: a text that is all digits or not. *)
(***************************************************************************)
Code(d) == [numeric |-> TRUE, digits |-> d]
NotANumber == [numeric |-> FALSE, digits |-> 0]
Tokens == {Code(d) : d \in 0..(CodeSpace - 1)} \cup {NotANumber}

\* totp_lite's HMAC-SHA1 truncation for a secret and a counter: a
\* deterministic function onto a finite code space, so that two counters may
\* share a code.
Hotp(bytes, counter) == ((counter + bytes.id + bytes.len) * (counter + bytes.id + bytes.len)) % CodeSpace

\* `(current_timestamp + step * 30i64) as u64`: the clock never goes below
\* one step, so the cast's argument is never negative.
AsU64(x) == x

\* totp_custom::<Sha1>(30, 6, &decoded_secret, time)
TotpCustom(bytes, time) == Code(Hotp(bytes, time \div StepSecs))

(***************************************************************************)
(* The twofactor table.                                                    *)
(***************************************************************************)
Kinds == {"Authenticator", "Other"}
None == [some |-> FALSE]
\* TwoFactor::new(user, type, data): enabled, last_used = 0
TwoFactorNew(data) == [some |-> TRUE, data |-> data, last_used |-> 0, enabled |-> TRUE]
\* TwoFactor::find_by_user_and_type
FindByUserAndType(st, kind) == st[kind]
\* TwoFactor::find_by_user
FindByUser(st) == {k \in Kinds : st[k].some}
\* TwoFactor::save: upsert of the row of (user, kind)
Save(st, tf) == [st EXCEPT !["Authenticator"] = tf]
\* TwoFactor::delete
Delete(st, kind) == [st EXCEPT ![kind] = None]

\* Mutant of SaveShadowed: save writes by the row's own uuid only, so a newly
\* constructed row is inserted next to a row the table already holds.
SaveShadowedByUuid(sh, st, read, tf) ==
    IF ~read.some /\ FindByUserAndType(st, "Authenticator").some
    THEN sh \cup {FindByUserAndType(st, "Authenticator")}
    ELSE sh

\* TwoFactor::save, the rows it leaves besides the saved one.  sh and st are
\* the table before the save, read the row the caller had found (None when
\* it constructed tf itself), tf the row saved.  The table holds one row per
\* (user, kind): the save replaces whatever row of that user and kind is
\* there, under whichever uuid.
SaveShadowed(sh, st, read, tf) == {}


(***************************************************************************)
(* validate_totp_code.                                                     *)
(***************************************************************************)
\* Mutant of TimeStep: the quotient is rounded to the nearest step instead of
\* truncated.
TimeStepRounded(current_timestamp, step) ==
    (current_timestamp + StepSecs \div 2) \div StepSecs + step

\* `let time_step = current_timestamp / 30i64 + step;`
TimeStep(current_timestamp, step) == current_timestamp \div StepSecs + step

\* `let time = (current_timestamp + step * 30i64) as u64;`
Time(current_timestamp, step) == AsU64(current_timestamp + step * StepSecs)

\* Mutant of Steps: the configuration flag is ignored.
StepsIgnoringConfig(disabled) == 1

\* `let steps = i64::from(!CONFIG.authenticator_disable_time_drift())`
Steps(disabled) == IF disabled THEN 0 ELSE 1

\* Mutant of ScanFrom: `time_step - 1 > last_used`, the step right after
\* last_used is refused as a replay.
RECURSIVE ScanFromSkippingNext(_, _, _, _, _, _)
ScanFromSkippingNext(step, steps, token, bytes, last_used, current_timestamp) ==
    IF step > steps
    THEN [outcome |-> "nomatch", time_step |-> -1, examined |-> {}]
    ELSE LET time_step == current_timestamp \div StepSecs + step
             time == AsU64(current_timestamp + step * StepSecs)
             generated == TotpCustom(bytes, time)
         IN  IF generated = token /\ time_step - 1 > last_used
             THEN [outcome |-> "accept", time_step |-> time_step, examined |-> {step}]
             ELSE IF generated = token /\ time_step - 1 <= last_used
             THEN [outcome |-> "replay", time_step |-> time_step, examined |-> {step}]
             ELSE LET rest == ScanFromSkippingNext(step + 1, steps, token, bytes, last_used,
                                                   current_timestamp)
                  IN  [rest EXCEPT !.examined = rest.examined \cup {step}]

\* Mutant of ScanFrom: `>=` for `>`, a time-step equal to last_used is accepted.
RECURSIVE ScanFromAcceptingEqual(_, _, _, _, _, _)
ScanFromAcceptingEqual(step, steps, token, bytes, last_used, current_timestamp) ==
    IF step > steps
    THEN [outcome |-> "nomatch", time_step |-> -1, examined |-> {}]
    ELSE LET time_step == current_timestamp \div StepSecs + step
             time == AsU64(current_timestamp + step * StepSecs)
             generated == TotpCustom(bytes, time)
         IN  IF generated = token /\ time_step >= last_used
             THEN [outcome |-> "accept", time_step |-> time_step, examined |-> {step}]
             ELSE IF generated = token /\ time_step < last_used
             THEN [outcome |-> "replay", time_step |-> time_step, examined |-> {step}]
             ELSE LET rest == ScanFromAcceptingEqual(step + 1, steps, token, bytes, last_used,
                                                     current_timestamp)
                  IN  [rest EXCEPT !.examined = rest.examined \cup {step}]

\* Mutant of ScanFrom: a match on a used time-step does not end the loop, the
\* later offsets are still tried and the replay is reported only when none
\* of them accepts.
RECURSIVE ScanFromRetryingLater(_, _, _, _, _, _)
ScanFromRetryingLater(step, steps, token, bytes, last_used, current_timestamp) ==
    IF step > steps
    THEN [outcome |-> "nomatch", time_step |-> -1, examined |-> {}]
    ELSE LET time_step == current_timestamp \div StepSecs + step
             time == AsU64(current_timestamp + step * StepSecs)
             generated == TotpCustom(bytes, time)
         IN  IF generated = token /\ time_step > last_used
             THEN [outcome |-> "accept", time_step |-> time_step, examined |-> {step}]
             ELSE LET rest == ScanFromRetryingLater(step + 1, steps, token, bytes, last_used,
                                                    current_timestamp)
                  IN  IF generated = token /\ rest.outcome = "nomatch"
                      THEN [outcome |-> "replay", time_step |-> time_step,
                            examined |-> rest.examined \cup {step}]
                      ELSE [rest EXCEPT !.examined = rest.examined \cup {step}]

\* `for step in -steps..=steps { ... }` from offset `step` on: the offsets
\* are examined in ascending order and the first one whose generated code
\* equals the token decides.  examined = the offsets a code was generated for.
RECURSIVE ScanFrom(_, _, _, _, _, _)
ScanFrom(step, steps, token, bytes, last_used, current_timestamp) ==
    IF step > steps
    THEN [outcome |-> "nomatch", time_step |-> -1, examined |-> {}]
    ELSE LET time_step == TimeStep(current_timestamp, step)
             time == Time(current_timestamp, step)
             generated == TotpCustom(bytes, time)
         IN  IF generated = token /\ time_step > last_used
             THEN [outcome |-> "accept", time_step |-> time_step, examined |-> {step}]
             ELSE IF generated = token /\ time_step <= last_used
             THEN [outcome |-> "replay", time_step |-> time_step, examined |-> {step}]
             ELSE LET rest == ScanFrom(step + 1, steps, token, bytes, last_used, current_timestamp)
                  IN  [rest EXCEPT !.examined = rest.examined \cup {step}]

\* Mutant of Scan: `0..=steps` for `-steps..=steps`, past offsets are skipped.
ScanForwardOnly(steps, token, bytes, last_used, current_timestamp) ==
    ScanFrom(0, steps, token, bytes, last_used, current_timestamp)

Scan(steps, token, bytes, last_used, current_timestamp) ==
    ScanFrom(-steps, steps, token, bytes, last_used, current_timestamp)

\* The record the scan works on: the stored row, or a new one holding the
\* secret passed in.
LoadTwoFactor(st, secret) ==
    IF FindByUserAndType(st, "Authenticator").some
    THEN FindByUserAndType(st, "Authenticator")
    ELSE TwoFactorNew(secret)

\* What a call of validate_totp_code did.
\*   result    : "ok" or the error path taken
\*   store     : the table after the call
\*   time_step : the time-step accepted, -1 if none
\*   examined  : the offsets a code was generated and compared for
\*   found     : whether the table was read
\*   wrote     : whether a row was saved
\*   event     : the ErrorEvent attached to the error
\*   message   : the error text
Outcome(result, st, time_step, examined, found, wrote, event, message) ==
    [result |-> result, store |-> st, time_step |-> time_step, examined |-> examined,
     found |-> found, wrote |-> wrote, event |-> event, message |-> message]

InvalidCodeMessage(current_timestamp) == <<"Invalid TOTP code! Server time / IP", current_timestamp>>

\* Mutant of ValidateTotpCode: the replay branch reports its own message.
ValidateTotpCodeTellingReplay(st, token, secret, current_timestamp, disabled, db_ok) ==
    LET decoded_secret == Base32Decode(secret) IN
    IF ~decoded_secret.ok
    THEN Outcome("bad_secret", st, -1, {}, FALSE, FALSE, "none", <<"Invalid TOTP secret", 0>>)
    ELSE
    LET twofactor == LoadTwoFactor(st, secret)
        steps == Steps(disabled)
        scan == Scan(steps, token, decoded_secret, twofactor.last_used, current_timestamp)
    IN  CASE scan.outcome = "accept" ->
                IF db_ok
                THEN Outcome("ok", Save(st, [twofactor EXCEPT !.last_used = scan.time_step]),
                             scan.time_step, scan.examined, TRUE, TRUE, "none", <<"", 0>>)
                ELSE Outcome("save_err", st, -1, scan.examined, TRUE, FALSE, "none",
                             <<"Error saving twofactor", 0>>)
          [] scan.outcome = "replay" ->
                Outcome("replay", st, -1, scan.examined, TRUE, FALSE, "UserFailedLogIn2fa",
                        <<"TOTP code already used", current_timestamp>>)
          [] OTHER ->
                Outcome("invalid", st, -1, scan.examined, TRUE, FALSE, "UserFailedLogIn2fa",
                        InvalidCodeMessage(current_timestamp))

ValidateTotpCode(st, token, secret, current_timestamp, disabled, db_ok) ==
    LET decoded_secret == Base32Decode(secret) IN
    IF ~decoded_secret.ok
    THEN Outcome("bad_secret", st, -1, {}, FALSE, FALSE, "none", <<"Invalid TOTP secret", 0>>)
    ELSE
    LET twofactor == LoadTwoFactor(st, secret)
        steps == Steps(disabled)
        scan == Scan(steps, token, decoded_secret, twofactor.last_used, current_timestamp)
    IN  CASE scan.outcome = "accept" ->
                IF db_ok
                THEN Outcome("ok", Save(st, [twofactor EXCEPT !.last_used = scan.time_step]),
                             scan.time_step, scan.examined, TRUE, TRUE, "none", <<"", 0>>)
                ELSE Outcome("save_err", st, -1, scan.examined, TRUE, FALSE, "none",
                             <<"Error saving twofactor", 0>>)
          [] scan.outcome = "replay" ->
                Outcome("replay", st, -1, scan.examined, TRUE, FALSE, "UserFailedLogIn2fa",
                        InvalidCodeMessage(current_timestamp))
          [] OTHER ->
                Outcome("invalid", st, -1, scan.examined, TRUE, FALSE, "UserFailedLogIn2fa",
                        InvalidCodeMessage(current_timestamp))

\* validate_totp_code_str: the login path.
ValidateTotpCodeStr(st, token, secret, current_timestamp, disabled, db_ok) ==
    IF ~token.numeric
    THEN Outcome("not_a_number", st, -1, {}, FALSE, FALSE, "none", <<"TOTP code is not a number", 0>>)
    ELSE ValidateTotpCode(st, token, secret, current_timestamp, disabled, db_ok)

(***************************************************************************)
(* The record of a request: what was asked and everything the handler did. *)
(*   op, key, token, kind : the request                                    *)
(*   now, before          : the clock and the table when it arrived        *)
(*   result               : "ok" or the error path taken                   *)
(*   reached, secret      : whether validate_totp_code was called, and     *)
(*                          with which secret                              *)
(*   time_step, examined, found, wrote, event, message : see Outcome       *)
(*   logged               : the event written by log_user_event            *)
(*   recover              : whether _generate_recover_code was called      *)
(*   policy               : whether enforce_2fa_policy was called          *)
(*   resp                 : the JSON body returned on success              *)
(*   accepted             : the latest accepted verification up to and     *)
(*                          including this request                         *)
(*   prev                 : the same before this request                   *)
(***************************************************************************)
NoAccepted == [some |-> FALSE, secret |-> KJunk, token |-> NotANumber, time_step |-> -1, now |-> 0,
               revoked |-> FALSE]

NoResp == [enabled |-> FALSE, key |-> KJunk]

Request(op, key, token, kind, st, current_timestamp, prior) ==
    [op |-> op, key |-> key, token |-> token, kind |-> kind,
     now |-> current_timestamp, before |-> st, result |-> "none",
     reached |-> FALSE, secret |-> KJunk,
     time_step |-> -1, examined |-> {}, found |-> FALSE, wrote |-> FALSE,
     event |-> "none", message |-> <<"", 0>>,
     logged |-> "none", recover |-> FALSE, policy |-> FALSE, resp |-> NoResp,
     accepted |-> prior.accepted, prev |-> prior.accepted]

\* The fields a call of validate_totp_code fills in.
WithOutcome(req, secret, token, v) ==
    [req EXCEPT !.reached = TRUE, !.secret = secret, !.result = v.result,
                !.time_step = v.time_step, !.examined = v.examined,
                !.found = v.found, !.wrote = v.wrote,
                !.event = v.event, !.message = v.message,
                !.accepted = IF v.result = "ok"
                             THEN [some |-> TRUE, secret |-> secret, token |-> token,
                                   time_step |-> v.time_step, now |-> req.now,
                                   revoked |-> FALSE]
                             ELSE req.accepted]

Failed(req, result) == [req EXCEPT !.result = result]

(***************************************************************************)
(* The handlers.  Each returns the table and the request record after it.  *)
(***************************************************************************)
\* Mutant of GenerateAuthenticator: the key is rotated, a fresh secret is
\* returned and stored whether or not a row exists.
GenerateAuthenticatorRotating(st, prior, t, pw_ok, fresh) ==
    LET req == Request("generate", KJunk, NotANumber, "Authenticator", st, t, prior)
        twofactor == FindByUserAndType(st, "Authenticator")
    IN  IF ~pw_ok
        THEN [store |-> st, last |-> Failed(req, "invalid_password")]
        ELSE [store |-> IF twofactor.some
                        THEN Save(st, [twofactor EXCEPT !.data = fresh])
                        ELSE st,
              last |-> [req EXCEPT !.result = "ok",
                                   !.resp = [enabled |-> twofactor.some, key |-> fresh]]]

\* generate_authenticator; fresh = crypto::encode_random_bytes::<20>(BASE32)
GenerateAuthenticator(st, prior, t, pw_ok, fresh) ==
    LET req == Request("generate", KJunk, NotANumber, "Authenticator", st, t, prior)
        twofactor == FindByUserAndType(st, "Authenticator")
    IN  IF ~pw_ok
        THEN [store |-> st, last |-> Failed(req, "invalid_password")]
        ELSE [store |-> st,
              last |-> [req EXCEPT !.result = "ok",
                                   !.resp = IF twofactor.some
                                            THEN [enabled |-> TRUE, key |-> twofactor.data]
                                            ELSE [enabled |-> FALSE, key |-> fresh]]]

\* Mutant of ActivateAuthenticator: the error of validate_totp_code is not
\* propagated (a missing `?`), the recovery code and the event follow anyway.
ActivateAuthenticatorIgnoringError(st, prior, t, disabled, key, token, pw_ok, db_ok) ==
    LET req == Request("activate", key, token, "Authenticator", st, t, prior)
        decoded_key == Base32Decode(key)
    IN  IF ~pw_ok
        THEN [store |-> st, last |-> Failed(req, "invalid_password")]
        ELSE IF ~decoded_key.ok
        THEN [store |-> st, last |-> Failed(req, "invalid_totp_secret")]
        ELSE IF decoded_key.len # KeyLen
        THEN [store |-> st, last |-> Failed(req, "invalid_key_length")]
        ELSE LET v == ValidateTotpCode(st, token, ToUppercase(key), t, disabled, db_ok)
                 done == WithOutcome(req, ToUppercase(key), token, v)
             IN  [store |-> v.store,
                  last |-> [done EXCEPT !.recover = TRUE,
                                        !.logged = "UserUpdated2fa",
                                        !.resp = [enabled |-> TRUE, key |-> key]]]

\* activate_authenticator (and activate_authenticator_put)
ActivateAuthenticator(st, prior, t, disabled, key, token, pw_ok, db_ok) ==
    LET req == Request("activate", key, token, "Authenticator", st, t, prior)
        decoded_key == Base32Decode(key)
    IN  IF ~pw_ok
        THEN [store |-> st, last |-> Failed(req, "invalid_password")]
        ELSE IF ~decoded_key.ok
        THEN [store |-> st, last |-> Failed(req, "invalid_totp_secret")]
        ELSE IF decoded_key.len # KeyLen
        THEN [store |-> st, last |-> Failed(req, "invalid_key_length")]
        ELSE LET v == ValidateTotpCode(st, token, ToUppercase(key), t, disabled, db_ok)
                 done == WithOutcome(req, ToUppercase(key), token, v)
             IN  IF v.result # "ok"
                 THEN [store |-> v.store, last |-> done]
                 ELSE [store |-> v.store,
                       last |-> [done EXCEPT !.recover = TRUE,
                                             !.logged = "UserUpdated2fa",
                                             !.resp = [enabled |-> TRUE, key |-> key]]]

\* The second-factor login: validate_totp_code_str with the stored secret.
LoginWithTotp(st, prior, t, disabled, token, secret, db_ok) ==
    LET req == Request("login", secret, token, "Authenticator", st, t, prior)
        v == ValidateTotpCodeStr(st, token, secret, t, disabled, db_ok)
    IN  [store |-> v.store,
         last |-> IF v.result = "not_a_number"
                  THEN [Failed(req, v.result) EXCEPT !.message = v.message]
                  ELSE WithOutcome(req, secret, token, v)]

\* Mutant of DisableAuthenticator: the key is not compared with the stored
\* text, any key deletes the row.
DisableAuthenticatorAnyKey(st, prior, t, key, kind, pw_ok, db_ok, policy_ok) ==
    LET req == Request("disable", key, NotANumber, kind, st, t, prior)
        twofactor == FindByUserAndType(st, kind)
        matched == twofactor.some
        after == IF matched THEN Delete(st, kind) ELSE st
        logged == IF matched THEN "UserDisabled2fa" ELSE "none"
    IN  IF ~pw_ok
        THEN [store |-> st, last |-> Failed(req, "invalid_password")]
        ELSE IF matched /\ ~db_ok
        THEN [store |-> st, last |-> Failed(req, "delete_err")]
        ELSE IF FindByUser(after) = {}
        THEN [store |-> after,
              last |-> [req EXCEPT !.logged = logged, !.policy = TRUE,
                                   !.result = IF policy_ok THEN "ok" ELSE "policy_err"]]
        ELSE [store |-> after, last |-> [req EXCEPT !.logged = logged, !.result = "ok"]]

\* Mutant of DisableAuthenticator: the row is marked disabled and kept, not
\* deleted.
DisableAuthenticatorKeepingRow(st, prior, t, key, kind, pw_ok, db_ok, policy_ok) ==
    LET req == Request("disable", key, NotANumber, kind, st, t, prior)
        twofactor == FindByUserAndType(st, kind)
        matched == twofactor.some /\ twofactor.data = key
        after == IF matched THEN [st EXCEPT ![kind].enabled = FALSE] ELSE st
        logged == IF matched THEN "UserDisabled2fa" ELSE "none"
        accepted == [req.accepted EXCEPT
                        !.revoked = @ \/ (req.accepted.some /\ matched /\ kind = "Authenticator")]
    IN  IF ~pw_ok
        THEN [store |-> st, last |-> Failed(req, "invalid_password")]
        ELSE IF twofactor.some /\ twofactor.data # key
        THEN [store |-> st, last |-> Failed(req, "mismatched_key")]
        ELSE IF matched /\ ~db_ok
        THEN [store |-> st, last |-> Failed(req, "delete_err")]
        ELSE IF FindByUser(after) = {}
        THEN [store |-> after,
              last |-> [req EXCEPT !.logged = logged, !.policy = TRUE, !.accepted = accepted,
                                   !.result = IF policy_ok THEN "ok" ELSE "policy_err"]]
        ELSE [store |-> after,
              last |-> [req EXCEPT !.logged = logged, !.accepted = accepted, !.result = "ok"]]

\* disable_authenticator
DisableAuthenticator(st, prior, t, key, kind, pw_ok, db_ok, policy_ok) ==
    LET req == Request("disable", key, NotANumber, kind, st, t, prior)
        twofactor == FindByUserAndType(st, kind)
        matched == twofactor.some /\ twofactor.data = key
        after == IF matched THEN Delete(st, kind) ELSE st
        logged == IF matched THEN "UserDisabled2fa" ELSE "none"
        accepted == [req.accepted EXCEPT
                        !.revoked = @ \/ (req.accepted.some /\ matched /\ kind = "Authenticator")]
    IN  IF ~pw_ok
        THEN [store |-> st, last |-> Failed(req, "invalid_password")]
        ELSE IF twofactor.some /\ twofactor.data # key
        THEN [store |-> st, last |-> Failed(req, "mismatched_key")]
        ELSE IF matched /\ ~db_ok
        THEN [store |-> st, last |-> Failed(req, "delete_err")]
        ELSE IF FindByUser(after) = {}
        THEN [store |-> after,
              last |-> [req EXCEPT !.logged = logged, !.policy = TRUE, !.accepted = accepted,
                                   !.result = IF policy_ok THEN "ok" ELSE "policy_err"]]
        ELSE [store |-> after,
              last |-> [req EXCEPT !.logged = logged, !.accepted = accepted, !.result = "ok"]]

(***************************************************************************)
(* State machine, one request at a time.                                   *)
(***************************************************************************)
Requests == 1..NReq

\* A request slot of SpecConc.
\*   pc        : "idle", "find" (before the table read), "save" (the scan
\*               accepted, before twofactor.save), "done"
\*   twofactor : the row held in memory
\*   read      : the row the table held when it was read
\*   stale     : at the save, the table no longer held the row read
Idle == [pc |-> "idle", op |-> "none", token |-> NotANumber, secret |-> KJunk,
         twofactor |-> None, read |-> None, stale |-> FALSE, result |-> "none"]

NoRequest ==
    Request("none", KJunk, NotANumber, "Authenticator",
            [k \in Kinds |-> None], 0, [accepted |-> NoAccepted])

Init ==
    /\ store \in {[k \in Kinds |-> IF k = "Other" THEN other ELSE None] :
                     other \in {None, TwoFactorNew(KJunk)}}
    /\ now = StartTime
    /\ disable_drift \in BOOLEAN
    /\ last = NoRequest
    /\ reqs = [r \in Requests |-> Idle]
    /\ shadowed = {}

\* The clock advances.
Tick ==
    /\ now + TickSecs <= MaxTime
    /\ now' = now + TickSecs
    /\ UNCHANGED <<store, disable_drift, last, reqs, shadowed>>

\* What may go wrong outside this file during a request: the proof of
\* identity is refused, a database write fails, the policy check fails.
Faults == {"none", "password", "database", "policy"}

Generate ==
    \E fault \in {"none", "password"}, fresh \in {K1, K2} :
        LET r == GenerateAuthenticator(store, last, now, fault # "password", fresh)
        IN  /\ store' = r.store
            /\ last' = r.last
            /\ UNCHANGED <<now, disable_drift, reqs, shadowed>>

Activate ==
    \E key \in Keys, token \in Tokens, fault \in {"none", "password", "database"} :
        LET r == ActivateAuthenticator(store, last, now, disable_drift, key, token,
                                       fault # "password", fault # "database")
        IN  /\ store' = r.store
            /\ last' = r.last
            /\ shadowed' = IF r.last.wrote
                           THEN SaveShadowed(shadowed, store,
                                             FindByUserAndType(store, "Authenticator"),
                                             FindByUserAndType(r.store, "Authenticator"))
                           ELSE shadowed
            /\ UNCHANGED <<now, disable_drift, reqs>>

\* The login handler passes the data of the stored row as the secret.
Login ==
    /\ store["Authenticator"].some
    /\ \E token \in Tokens, fault \in {"none", "database"} :
        LET r == LoginWithTotp(store, last, now, disable_drift, token,
                               store["Authenticator"].data, fault # "database")
        IN  /\ store' = r.store
            /\ last' = r.last
            /\ shadowed' = IF r.last.wrote
                           THEN SaveShadowed(shadowed, store,
                                             FindByUserAndType(store, "Authenticator"),
                                             FindByUserAndType(r.store, "Authenticator"))
                           ELSE shadowed
            /\ UNCHANGED <<now, disable_drift, reqs>>

Disable ==
    \E key \in {K1, K2, KJunk}, kind \in Kinds, fault \in Faults :
        LET r == DisableAuthenticator(store, last, now, key, kind,
                                      fault # "password", fault # "database", fault # "policy")
        IN  /\ store' = r.store
            /\ last' = r.last
            /\ UNCHANGED <<now, disable_drift, reqs, shadowed>>

Next == Tick \/ Generate \/ Activate \/ Login \/ Disable

Spec == Init /\ [][Next]_vars

(***************************************************************************)
(* Vocabulary of the properties.                                           *)
(***************************************************************************)
\* The last request called validate_totp_code.
Verified == last.op \in {"activate", "login"} /\ last.reached
\* The time-step of the clock when the last request arrived.
BaseStep == last.now \div StepSecs
\* The code an authenticator holding `secret` shows during time-step `step`.
CodeAt(secret, step) == TotpCustom(Base32Decode(secret), step * StepSecs)
\* last_used of the row the last request found (0 for a row it constructed).
LastUsedBefore ==
    IF last.before["Authenticator"].some THEN last.before["Authenticator"].last_used ELSE 0
\* The offsets of the drift window in force.
Window == (0 - Steps(disable_drift))..Steps(disable_drift)

(***************************************************************************)
(* C2, as stated: once a verification accepted a code and recorded         *)
(* time-step s, any later verification with the same secret and code is    *)
(* rejected on the replay path and last_used is still s.                   *)
(***************************************************************************)
C2_ReplayAlways ==
    (Verified /\ last.prev.some /\ last.token = last.prev.token
              /\ last.secret = last.prev.secret)
    => /\ last.result = "replay"
       /\ store["Authenticator"].some
       /\ store["Authenticator"].last_used = last.prev.time_step

(***************************************************************************)
(* C2, amended: the same, as long as the row still exists and s is still   *)
(* inside the drift window of the clock (in particular for an immediate    *)
(* second activate with the same key and code).                            *)
(***************************************************************************)
C2_ReplayWhileInWindow ==
    (Verified /\ last.prev.some /\ last.token = last.prev.token
              /\ last.secret = last.prev.secret
              /\ last.before["Authenticator"].some
              /\ (last.prev.time_step - BaseStep) \in Window)
    => /\ last.result = "replay"
       /\ store = last.before
       /\ store["Authenticator"].last_used = last.prev.time_step

\* An activate repeated with the same key and code right after it succeeded.
C2_Witness ==
    /\ last.op = "activate" /\ last.reached /\ last.prev.some
    /\ last.token = last.prev.token /\ last.secret = last.prev.secret
    /\ last.now = last.prev.now
    /\ last.result = "replay"

(***************************************************************************)
(* C4, as stated: after a successful activate with key K the stored        *)
(* Authenticator row holds secret K, is enabled and has last_used equal to *)
(* the accepted time-step, whether or not a row existed before.            *)
(***************************************************************************)
C4_ActivatePersistsKey ==
    (last.op = "activate" /\ last.result = "ok")
    => /\ store["Authenticator"].some
       /\ store["Authenticator"].data = last.key
       /\ store["Authenticator"].enabled
       /\ store["Authenticator"].last_used = last.time_step

(***************************************************************************)
(* C5, as stated: for both drift settings, the code of the current         *)
(* time-step, submitted while last_used is below that step, is accepted    *)
(* and last_used becomes exactly the current time-step (the save working). *)
(***************************************************************************)
C5_CurrentCodeAccepted ==
    (Verified /\ last.result # "save_err"
              /\ last.token = CodeAt(last.secret, BaseStep)
              /\ LastUsedBefore < BaseStep)
    => /\ last.result = "ok"
       /\ last.time_step = BaseStep
       /\ store["Authenticator"].last_used = BaseStep

(***************************************************************************)
(* C5, amended: the same when drift tolerance is disabled, and with drift  *)
(* enabled when the code of the previous time-step is a different code.    *)
(***************************************************************************)
C5_CurrentCodeAcceptedUnlessEarlierMatch ==
    (Verified /\ last.result # "save_err"
              /\ last.token = CodeAt(last.secret, BaseStep)
              /\ LastUsedBefore < BaseStep
              /\ (disable_drift \/ CodeAt(last.secret, BaseStep - 1) # last.token))
    => /\ last.result = "ok"
       /\ last.time_step = BaseStep
       /\ store["Authenticator"].last_used = BaseStep

\* A login with the current code, drift enabled, on a row used one step ago.
C5_Witness ==
    /\ last.op = "login" /\ ~disable_drift
    /\ last.token = CodeAt(last.secret, BaseStep)
    /\ CodeAt(last.secret, BaseStep - 1) # last.token
    /\ LastUsedBefore = BaseStep - 1
    /\ last.result = "ok" /\ store["Authenticator"].last_used = BaseStep

(***************************************************************************)
(* C6, as stated: with drift enabled and last_used below the window, the   *)
(* code of the previous or of the next time-step is accepted and that step *)
(* is recorded; a code generated for a step outside the window is rejected *)
(* and changes nothing.                                                    *)
(***************************************************************************)
C6_DriftWindow ==
    (Verified /\ ~disable_drift /\ last.result # "save_err"
              /\ LastUsedBefore < BaseStep - 1)
    => /\ \A d \in {-1, 1} :
            last.token = CodeAt(last.secret, BaseStep + d)
            => /\ last.result = "ok"
               /\ store["Authenticator"].last_used = BaseStep + d
       /\ \A d \in {-2, 2} :
            last.token = CodeAt(last.secret, BaseStep + d)
            => /\ last.result \in {"invalid", "replay"}
               /\ store = last.before

(***************************************************************************)
(* C6, amended: with drift enabled and last_used below the window, a code  *)
(* that equals the code of a window step is accepted and the earliest such *)
(* step is recorded (the previous step for its own code, the next step for *)
(* a code no earlier window step shares); submitted again while that step  *)
(* is in the window it is rejected; a code equal to none of the three      *)
(* window codes is rejected on the no-match path and changes nothing.      *)
(***************************************************************************)
C6_DriftWindowFirstMatch ==
    /\ (Verified /\ ~disable_drift /\ last.result # "save_err"
                 /\ LastUsedBefore < BaseStep - 1)
       => /\ last.token = CodeAt(last.secret, BaseStep - 1)
             => /\ last.result = "ok"
                /\ store["Authenticator"].last_used = BaseStep - 1
          /\ ( /\ last.token = CodeAt(last.secret, BaseStep + 1)
               /\ last.token # CodeAt(last.secret, BaseStep)
               /\ last.token # CodeAt(last.secret, BaseStep - 1) )
             => /\ last.result = "ok"
                /\ store["Authenticator"].last_used = BaseStep + 1
          /\ (\A d \in {-1, 0, 1} : last.token # CodeAt(last.secret, BaseStep + d))
             => /\ last.result = "invalid"
                /\ store = last.before
    /\ (Verified /\ ~disable_drift /\ last.prev.some /\ last.before["Authenticator"].some
                 /\ last.token = last.prev.token /\ last.secret = last.prev.secret
                 /\ (last.prev.time_step - BaseStep) \in {-1, 0, 1})
       => /\ last.result = "replay"
          /\ store = last.before

\* The code of the next time-step, accepted ahead of the clock.
C6_Witness ==
    /\ Verified /\ ~disable_drift
    /\ LastUsedBefore < BaseStep - 1
    /\ last.token = CodeAt(last.secret, BaseStep + 1)
    /\ last.token # CodeAt(last.secret, BaseStep)
    /\ last.token # CodeAt(last.secret, BaseStep - 1)
    /\ last.result = "ok" /\ last.time_step = BaseStep + 1

(***************************************************************************)
(* C7: with drift tolerance disabled only offset 0 is examined; a code is  *)
(* accepted only if it is the code of the current time-step, which is then *)
(* recorded; any other code, the code of an adjacent step included, is     *)
(* rejected on the no-match path, never on the replay path.                *)
(***************************************************************************)
C7_NoDriftExactStep ==
    (Verified /\ disable_drift /\ last.found)
    => /\ last.examined = {0}
       /\ last.result = "ok"
            => /\ last.token = CodeAt(last.secret, BaseStep)
               /\ last.time_step = BaseStep
               /\ store["Authenticator"].last_used = BaseStep
       /\ last.token # CodeAt(last.secret, BaseStep)
            => /\ last.result = "invalid"
               /\ store = last.before

\* The code of the next step only, refused with drift tolerance disabled.
C7_Witness ==
    /\ Verified /\ disable_drift
    /\ last.token = CodeAt(last.secret, BaseStep + 1)
    /\ last.token # CodeAt(last.secret, BaseStep)
    /\ LastUsedBefore < BaseStep
    /\ last.result = "invalid"

(***************************************************************************)
(* C8: whenever activate fails (proof of identity, malformed or            *)
(* wrong-length secret, no matching code, replayed code, failed save) the  *)
(* table is as before the call, no recovery code was issued and no         *)
(* UserUpdated2fa event was logged.                                        *)
(***************************************************************************)
C8_FailedActivateChangesNothing ==
    (last.op = "activate" /\ last.result # "ok")
    => /\ store = last.before
       /\ ~last.recover
       /\ last.logged = "none"
       /\ last.result \in {"invalid_password", "invalid_totp_secret", "invalid_key_length",
                           "invalid", "replay", "save_err"}

\* An activate whose code matched and whose save failed, on an existing row.
C8_Witness ==
    /\ last.op = "activate" /\ last.result = "save_err"
    /\ last.before["Authenticator"].some
    /\ store = last.before

(***************************************************************************)
(* C10: when a row exists for the kind named in a disable request, a key   *)
(* different from the stored text fails (with the mismatch error once the  *)
(* password check has passed), leaves the row as it was, logs no event and *)
(* calls no policy enforcement; the equal key, the password check passed   *)
(* and the delete done, removes the row and logs UserDisabled2fa.          *)
(***************************************************************************)
C10_DisableKeyCheck ==
    (last.op = "disable" /\ last.before[last.kind].some)
    => /\ last.key # last.before[last.kind].data
            => /\ last.result \in {"mismatched_key", "invalid_password"}
               /\ last.result # "invalid_password" => last.result = "mismatched_key"
               /\ store = last.before
               /\ last.logged = "none"
               /\ ~last.policy
       /\ ( /\ last.key = last.before[last.kind].data
            /\ last.result \notin {"invalid_password", "delete_err"} )
            => /\ ~store[last.kind].some
               /\ store = [last.before EXCEPT ![last.kind] = None]
               /\ last.logged = "UserDisabled2fa"

\* A disable of the Authenticator row refused for a key that is not the stored one.
C10_Witness ==
    /\ last.op = "disable" /\ last.kind = "Authenticator"
    /\ last.before["Authenticator"].some
    /\ last.key # last.before["Authenticator"].data
    /\ last.result = "mismatched_key"
    /\ store["Authenticator"].some

(***************************************************************************)
(* State machine of concurrent validate_totp_code calls.  A call suspends  *)
(* at the table read (find_by_user_and_type(..).await) and at the write    *)
(* (twofactor.save(conn).await); the scan between the two does not         *)
(* suspend.  Each request has its own database connection and no           *)
(* transaction spans the read and the write.                               *)
(***************************************************************************)
\* An activate (with a well-formed key of the right length) or a login (with
\* the stored secret) enters validate_totp_code and decodes the secret.
Call(r) ==
    /\ reqs[r].pc = "idle"
    /\ \E op \in {"activate", "login"}, key \in {K1, K2}, token \in Tokens \ {NotANumber} :
        /\ op = "login" => (store["Authenticator"].some /\ key = store["Authenticator"].data)
        /\ reqs' = [reqs EXCEPT ![r] =
                      IF Base32Decode(ToUppercase(key)).ok
                      THEN [Idle EXCEPT !.pc = "find", !.op = op, !.token = token,
                                        !.secret = ToUppercase(key)]
                      ELSE [Idle EXCEPT !.pc = "done", !.op = op, !.token = token,
                                        !.secret = ToUppercase(key), !.result = "bad_secret"]]
    /\ UNCHANGED <<store, now, disable_drift, last, shadowed>>

\* The table read returns and the drift window is scanned at the clock's time.
FindAndScan(r) ==
    /\ reqs[r].pc = "find"
    /\ LET twofactor == LoadTwoFactor(store, reqs[r].secret)
           scan == Scan(Steps(disable_drift), reqs[r].token, Base32Decode(reqs[r].secret),
                        twofactor.last_used, now)
       IN  reqs' = [reqs EXCEPT ![r] =
                      CASE scan.outcome = "accept" ->
                             [@ EXCEPT !.pc = "save", !.read = FindByUserAndType(store, "Authenticator"),
                                       !.twofactor = [twofactor EXCEPT !.last_used = scan.time_step]]
                        [] scan.outcome = "replay" ->
                             [@ EXCEPT !.pc = "done", !.read = FindByUserAndType(store, "Authenticator"),
                                       !.twofactor = twofactor, !.result = "replay"]
                        [] OTHER ->
                             [@ EXCEPT !.pc = "done", !.read = FindByUserAndType(store, "Authenticator"),
                                       !.twofactor = twofactor, !.result = "invalid"]]
    /\ UNCHANGED <<store, now, disable_drift, last, shadowed>>

\* twofactor.save(conn).await? completes.
SaveRow(r) ==
    /\ reqs[r].pc = "save"
    /\ \E db_ok \in BOOLEAN :
        /\ store' = IF db_ok THEN Save(store, reqs[r].twofactor) ELSE store
        /\ shadowed' = IF db_ok
                       THEN SaveShadowed(shadowed, store, reqs[r].read, reqs[r].twofactor)
                       ELSE shadowed
        /\ reqs' = [reqs EXCEPT ![r] =
                      [@ EXCEPT !.pc = "done",
                                !.result = IF db_ok THEN "ok" ELSE "save_err",
                                !.stale = (FindByUserAndType(store, "Authenticator") # reqs[r].read)]]
    /\ UNCHANGED <<now, disable_drift, last>>

\* The response is sent; the slot serves the next request.
Return(r) ==
    /\ reqs[r].pc = "done"
    /\ reqs' = [reqs EXCEPT ![r] = Idle]
    /\ UNCHANGED <<store, now, disable_drift, last, shadowed>>

NextConc ==
    \/ Tick
    \/ \E r \in Requests : Call(r)
    \/ \E r \in Requests : FindAndScan(r)
    \/ \E r \in Requests : SaveRow(r)
    \/ \E r \in Requests : Return(r)

SpecConc == Init /\ [][NextConc]_vars

(***************************************************************************)
(* C1: under every interleaving of concurrent validate_totp_code requests  *)
(* for the same factor, no two requests carrying the same code for the     *)
(* same secret both succeed for the same time-step, and no request         *)
(* succeeds after the row it read was superseded by another request.       *)
(***************************************************************************)
C1_NoConcurrentDoubleAccept ==
    /\ \A r1 \in Requests, r2 \in Requests :
        (/\ r1 # r2
         /\ reqs[r1].pc = "done" /\ reqs[r1].result = "ok"
         /\ reqs[r2].pc = "done" /\ reqs[r2].result = "ok"
         /\ reqs[r1].token = reqs[r2].token
         /\ reqs[r1].secret = reqs[r2].secret)
        => reqs[r1].twofactor.last_used # reqs[r2].twofactor.last_used
    /\ \A r \in Requests :
        (reqs[r].pc = "done" /\ reqs[r].result = "ok") => ~reqs[r].stale

(***************************************************************************)
(* C3: from the creation of the Authenticator row on, its persisted        *)
(* last_used never decreases, in any interleaving of requests: no write of *)
(* a request that had read the row lowers the row's last_used.             *)
(***************************************************************************)
C3_LastUsedNeverDecreases ==
    [][\A r \in Requests :
         (/\ reqs[r].pc = "save" /\ reqs'[r].pc = "done"
          /\ reqs[r].read.some
          /\ store["Authenticator"].some /\ store'["Authenticator"].some)
         => store'["Authenticator"].last_used >= store["Authenticator"].last_used]_vars

(***************************************************************************)
(* State machine of the public entry points called with arbitrary          *)
(* arguments: validate_totp_code_str takes the secret from its caller.     *)
(***************************************************************************)
ValidateStr ==
    \E token \in Tokens, secret \in Keys, fault \in {"none", "database"} :
        LET r == LoginWithTotp(store, last, now, disable_drift, token, secret, fault # "database")
        IN  /\ store' = r.store
            /\ last' = r.last
            /\ shadowed' = IF r.last.wrote
                           THEN SaveShadowed(shadowed, store,
                                             FindByUserAndType(store, "Authenticator"),
                                             FindByUserAndType(r.store, "Authenticator"))
                           ELSE shadowed
            /\ UNCHANGED <<now, disable_drift, reqs>>

NextApi == Tick \/ Activate \/ ValidateStr

SpecApi == Init /\ [][NextApi]_vars

(***************************************************************************)
(* C9: on activate and on the login path a secret text that is not valid   *)
(* base32, or that decodes to a length other than 20 bytes, is rejected    *)
(* before any code is generated or compared and before the table is read   *)
(* or written; every stored Authenticator secret decodes to 20 bytes.      *)
(***************************************************************************)
C9_BadSecretRejectedFirst ==
    /\ (/\ last.op \in {"activate", "login"}
        /\ (~Base32Decode(last.key).ok \/ Base32Decode(last.key).len # KeyLen))
       => /\ last.result # "ok"
          /\ last.examined = {}
          /\ ~last.found
          /\ ~last.wrote
          /\ store = last.before
    /\ store["Authenticator"].some
       => /\ Base32Decode(store["Authenticator"].data).ok
          /\ Base32Decode(store["Authenticator"].data).len = KeyLen

(***************************************************************************)
(* C11: when no row exists for the kind named in a disable request whose   *)
(* password check passed, the request succeeds and is a no-op: nothing is  *)
(* deleted, no event is logged, no external collaborator is called and the *)
(* table is unchanged.                                                     *)
(***************************************************************************)
C11_DisableAbsentIsNoOp ==
    (last.op = "disable" /\ last.result # "invalid_password" /\ ~last.before[last.kind].some)
    => /\ last.result = "ok"
       /\ store = last.before
       /\ last.logged = "none"
       /\ ~last.policy

(***************************************************************************)
(* C12: generate_authenticator never writes the table; when an             *)
(* Authenticator row exists it returns that row's secret with enabled =    *)
(* true (so repeated calls return the same key and never rotate it); when  *)
(* none exists it returns a fresh secret with enabled = false and persists *)
(* nothing.                                                                *)
(***************************************************************************)
C12_GenerateReadsOnly ==
    (last.op = "generate")
    => /\ store = last.before
       /\ last.logged = "none" /\ ~last.recover /\ ~last.policy /\ ~last.wrote
       /\ last.result = "ok"
            => IF last.before["Authenticator"].some
               THEN /\ last.resp.enabled
                    /\ last.resp.key = last.before["Authenticator"].data
                    /\ store["Authenticator"].data = last.resp.key
               ELSE /\ ~last.resp.enabled
                    /\ Base32Decode(last.resp.key).ok
                    /\ Base32Decode(last.resp.key).len = KeyLen
                    /\ ~store["Authenticator"].some

\* A get-secret on an enrolled user: the stored key comes back, used or not.
C12_Witness ==
    /\ last.op = "generate" /\ last.result = "ok"
    /\ last.before["Authenticator"].some
    /\ last.before["Authenticator"].last_used > 0
    /\ last.resp.enabled
    /\ last.resp.key = store["Authenticator"].data

(***************************************************************************)
(* C14: a verification is decided by the smallest offset of the window     *)
(* whose generated code equals the submitted code.  If that offset's       *)
(* time-step is greater than last_used the call accepts and records that   *)
(* time-step (nothing is recorded when the save fails); otherwise it       *)
(* rejects as a replay without looking at later offsets, even when a later *)
(* offset matches with a time-step greater than last_used; when no offset  *)
(* matches it rejects as invalid.                                          *)
(***************************************************************************)
C14_SmallestMatchDecides ==
    (Verified /\ last.token.numeric /\ Base32Decode(last.secret).ok)
    => LET matching == {d \in Window : CodeAt(last.secret, BaseStep + d) = last.token}
       IN  IF matching = {}
           THEN /\ last.result = "invalid"
                /\ last.examined = Window
                /\ store = last.before
           ELSE LET first == CHOOSE d \in matching : \A e \in matching : d <= e
                IN  /\ last.examined = {d \in Window : d <= first}
                    /\ IF BaseStep + first > LastUsedBefore
                       THEN /\ last.result \in {"ok", "save_err"}
                            /\ last.result = "ok"
                                 => /\ last.time_step = BaseStep + first
                                    /\ store["Authenticator"].last_used = BaseStep + first
                            /\ last.result = "save_err" => store = last.before
                       ELSE /\ last.result = "replay"
                            /\ store = last.before

\* A replay decided by the first matching offset although a later offset of
\* the window matches too and its time-step is newer than last_used.
C14_Witness ==
    /\ Verified /\ last.result = "replay"
    /\ \E d \in Window :
          /\ d \notin last.examined
          /\ CodeAt(last.secret, BaseStep + d) = last.token
          /\ BaseStep + d > LastUsedBefore

(***************************************************************************)
(* C15: disable calls enforce_2fa_policy only when the request matched and *)
(* deleted a row and the user has no row of any kind afterwards; not when  *)
(* another row remains, when the key mismatched or when nothing was        *)
(* deleted.                                                                *)
(***************************************************************************)
C15_PolicyOnlyAfterDelete ==
    (last.op = "disable" /\ last.policy)
    => /\ last.before[last.kind].some
       /\ last.key = last.before[last.kind].data
       /\ ~store[last.kind].some
       /\ last.logged = "UserDisabled2fa"
       /\ \A k \in Kinds : ~store[k].some

(***************************************************************************)
(* C16: at a given server time, a verification that matched nothing in the *)
(* window and one that matched a time-step not newer than last_used return *)
(* the same error value (the message text and the attached                 *)
(* UserFailedLogIn2fa event depend on the server time only, not on which   *)
(* of the two paths was taken), and both leave the table unchanged.        *)
(***************************************************************************)
C16_ReplayIndistinguishable ==
    (Verified /\ last.result \in {"invalid", "replay"})
    => /\ last.message = <<"Invalid TOTP code! Server time / IP", last.now>>
       /\ last.event = "UserFailedLogIn2fa"
       /\ store = last.before
       /\ ~last.wrote /\ last.logged = "none" /\ ~last.recover

\* A login refused on the replay path: the code matched a used time-step.
C16_Witness ==
    /\ last.op = "login" /\ last.result = "replay"
    /\ \E d \in last.examined :
          /\ CodeAt(last.secret, BaseStep + d) = last.token
          /\ BaseStep + d <= LastUsedBefore
    /\ last.message = <<"Invalid TOTP code! Server time / IP", last.now>>

(***************************************************************************)
(* C17: replay state belongs to the row, not to the secret.  After a       *)
(* disable that deleted the Authenticator row, the next activate finds no  *)
(* row and is judged against the sentinel of a newly constructed one,      *)
(* whatever last_used the deleted row held: with the same secret, the code *)
(* accepted before the disable is accepted again while its time-step is    *)
(* inside the window, and the first window step showing that code is       *)
(* recorded in the new row.                                                *)
(***************************************************************************)
C17_ReplayStateDiesWithRow ==
    (/\ last.op = "activate" /\ last.reached
     /\ last.prev.some /\ last.prev.revoked
     /\ last.secret = last.prev.secret /\ last.token = last.prev.token
     /\ (last.prev.time_step - BaseStep) \in Window
     /\ last.result # "save_err")
    => /\ ~last.before["Authenticator"].some
       /\ last.result = "ok"
       /\ last.time_step <= last.prev.time_step
       /\ last.time_step - BaseStep \in Window
       /\ CodeAt(last.secret, last.time_step) = last.token
       /\ \A d \in Window :
             BaseStep + d < last.time_step => CodeAt(last.secret, BaseStep + d) # last.token
       /\ store["Authenticator"] =
             [some |-> TRUE, data |-> last.secret, last_used |-> last.time_step, enabled |-> TRUE]

\* The time-step consumed before the disable is consumed again by the
\* activate that follows it.
C17_Witness ==
    /\ last.op = "activate" /\ last.result = "ok"
    /\ ~last.before["Authenticator"].some
    /\ last.prev.some /\ last.prev.revoked
    /\ last.secret = last.prev.secret /\ last.token = last.prev.token
    /\ last.time_step = last.prev.time_step
    /\ store["Authenticator"].last_used = last.prev.time_step

(***************************************************************************)
(* The arithmetic of one loop iteration on its own: for a clock reading    *)
(* and an offset, the time-step that is compared with and stored into      *)
(* last_used, the instant the code is generated for, and that code.  The   *)
(* clock reading ranges over every second from the epoch to MaxTime; an    *)
(* offset whose instant would lie before the epoch is left out.            *)
(***************************************************************************)
Offsets == {-1, 0, 1}

Iteration ==
    \E current_timestamp \in 0..MaxTime, step \in Offsets, secret \in {K1, K2} :
        /\ current_timestamp + StepSecs * step >= 0
        /\ last' = [op |-> "iteration", now |-> current_timestamp, step |-> step,
                    secret |-> secret,
                    time_step |-> TimeStep(current_timestamp, step),
                    time |-> Time(current_timestamp, step),
                    generated |-> TotpCustom(Base32Decode(secret),
                                             Time(current_timestamp, step))]
        /\ UNCHANGED <<store, now, disable_drift, reqs, shadowed>>

NextTime == Iteration

SpecTime == Init /\ [][NextTime]_vars

(***************************************************************************)
(* C18: for every non-negative current_timestamp and every offset in       *)
(* {-1, 0, 1} with current_timestamp + 30 * step >= 0, the time-step       *)
(* compared with and stored into last_used (current_timestamp / 30 + step) *)
(* is the 30-second step index of the instant the code is generated for,   *)
(* so the recorded step is the step of the code that was matched.          *)
(***************************************************************************)
C18_RecordedStepIsCodeStep ==
    (last.op = "iteration")
    => /\ last.time_step = last.time \div StepSecs
       /\ last.time_step >= 0
       /\ last.time_step * StepSecs <= last.time
       /\ last.time < (last.time_step + 1) * StepSecs
       /\ last.generated = CodeAt(last.secret, last.time_step)

\* The previous offset taken at a clock reading that is not a step boundary.
C18_Witness ==
    /\ last.op = "iteration" /\ last.step = -1
    /\ last.now % StepSecs # 0
    /\ last.time_step = last.now \div StepSecs - 1
    /\ last.time = last.now - StepSecs

(***************************************************************************)
(* Concurrent validate_totp_code requests interleaved with disable         *)
(* requests, at a fixed clock reading.  disable_authenticator is taken as  *)
(* one step: its read, its delete and its policy check do not matter to    *)
(* the number of rows separately.                                          *)
(***************************************************************************)
\* A client holding a secret submits the code its authenticator shows now:
\* an activate with any key, or a login against the stored row.
CallRows(r) ==
    /\ reqs[r].pc = "idle"
    /\ \E op \in {"activate", "login"}, key \in {K1, K2} :
        /\ op = "login" => (store["Authenticator"].some /\ key = store["Authenticator"].data)
        /\ reqs' = [reqs EXCEPT ![r] =
                      [Idle EXCEPT !.pc = "find", !.op = op,
                                   !.token = TotpCustom(Base32Decode(key), now),
                                   !.secret = ToUppercase(key)]]
    /\ UNCHANGED <<store, now, disable_drift, last, shadowed>>

DisableRows ==
    /\ \E key \in {K1, K2}, kind \in Kinds, fault \in {"none", "database"} :
          store' = DisableAuthenticator(store, last, now, key, kind, TRUE,
                                        fault # "database", TRUE).store
    /\ UNCHANGED <<now, disable_drift, last, reqs, shadowed>>

NextRows ==
    \/ \E r \in Requests : CallRows(r)
    \/ \E r \in Requests : FindAndScan(r)
    \/ \E r \in Requests : SaveRow(r)
    \/ \E r \in Requests : Return(r)
    \/ DisableRows

SpecRows == Init /\ [][NextRows]_vars

=============================================================================
